---------------------------- MODULE Spec2Model ----------------------------
(***************************************************************************)
(* A model of server.py: the quotation REST facade over the Supabase       *)
(* store.  The store's tables are the state; every handler is a sequence   *)
(* of store calls, and one action models one store call of one request     *)
(* (with the handler code that precedes and follows it), so that the       *)
(* states between the writes of a handler are states of the model.         *)
(*                                                                         *)
(* Amounts are Python floats (IEEE-754 binary64).  They are modelled        *)
(* bit-exactly: a float is [neg, man, exp] with value                      *)
(* (-1)^neg * man * 2^exp, man a sequence of bits, least significant       *)
(* first, that is empty (zero) or odd and at most Precision bits long.     *)
(***************************************************************************)
EXTENDS Integers, Sequences, FiniteSets, TLC

\* ------------------------------------------------------------------------
\* Bounds of the model
\* ------------------------------------------------------------------------

\* Longest item list the calculator is applied to.
MaxItems == 3

\* Number of quotation headers the store ever allocates an id for.
MaxQuotations == 1

\* Number of reminder rows the store ever allocates an id for.
MaxReminders == 1

\* Number of store writes that fail in a run.
MaxFaults == 1

\* How many characters over a slice bound the texts of a document go.
MaxOver == 2

\* Number of rows that update and delete requests change in a run of the
\* interleaved updates and deletes.
MaxChanged == 1

\* ------------------------------------------------------------------------
\* Binary64 arithmetic
\* ------------------------------------------------------------------------

\* Significand width of a Python float.
Precision == 53

\* Naturals are multiplied, added and subtracted in limbs of LimbBits bits
\* (least significant limb first) and rounded as bit sequences.
LimbBits == 15

Base == 2 ^ LimbBits

\* Limbs of fraction the long division of TrueDiv produces before rounding:
\* more than Precision + 1 bits for every quotient of at least 2^-15.
DivFractionLimbs == 6

MaxOf(x, y) == IF x >= y THEN x ELSE y

MinOf(x, y) == IF x <= y THEN x ELSE y

Abs(n) == IF n < 0 THEN -n ELSE n

BitAt(b, i) == IF i <= Len(b) THEN b[i] ELSE 0

\* b without its high zero bits.
Trim(b) ==
  LET ones == {i \in 1..Len(b) : b[i] = 1}
  IN  IF ones = {} THEN << >>
      ELSE SubSeq(b, 1, CHOOSE i \in ones : \A j \in ones : j <= i)

Zeros(k) == [i \in 1..k |-> 0]

Shl(b, k) == IF b = << >> THEN << >> ELSE Zeros(k) \o b

\* The value of the k bits of b from position from.
RECURSIVE BitsValue(_, _, _)
BitsValue(b, from, k) ==
  IF k = 0 THEN 0 ELSE BitAt(b, from) + 2 * BitsValue(b, from + 1, k - 1)

ToLimbs(b) ==
  [i \in 1..((Len(b) + LimbBits - 1) \div LimbBits) |->
     BitsValue(b, LimbBits * (i - 1) + 1, LimbBits)]

ToBits(l) ==
  Trim([k \in 1..(LimbBits * Len(l)) |->
          (l[((k - 1) \div LimbBits) + 1] \div (2 ^ ((k - 1) % LimbBits))) % 2])

\* The bits of a natural below 2^30.
Bits(n) == ToBits(<<n % Base, n \div Base>>)

LimbAt(l, i) == IF i <= Len(l) THEN l[i] ELSE 0

RECURSIVE AddLimbs(_, _, _, _)
AddLimbs(a, b, i, carry) ==
  IF i > MaxOf(Len(a), Len(b)) THEN <<carry>>
  ELSE LET s == LimbAt(a, i) + LimbAt(b, i) + carry
       IN  <<s % Base>> \o AddLimbs(a, b, i + 1, s \div Base)

\* a - b for a >= b.
RECURSIVE SubLimbs(_, _, _, _)
SubLimbs(a, b, i, borrow) ==
  IF i > Len(a) THEN << >>
  ELSE LET d == LimbAt(a, i) - LimbAt(b, i) - borrow
       IN  <<d % Base>> \o SubLimbs(a, b, i + 1, IF d < 0 THEN 1 ELSE 0)

\* a * d for one limb d.
RECURSIVE MulLimb(_, _, _, _)
MulLimb(a, d, i, carry) ==
  IF i > Len(a) THEN <<carry>>
  ELSE LET p == a[i] * d + carry
       IN  <<p % Base>> \o MulLimb(a, d, i + 1, p \div Base)

RECURSIVE MulLimbs(_, _)
MulLimbs(a, b) ==
  IF b = << >> THEN << >>
  ELSE AddLimbs(MulLimb(a, Head(b), 1, 0),
                <<0>> \o MulLimbs(a, Tail(b)), 1, 0)

AddBits(a, b) == ToBits(AddLimbs(ToLimbs(a), ToLimbs(b), 1, 0))

SubBits(a, b) == ToBits(SubLimbs(ToLimbs(a), ToLimbs(b), 1, 0))

MulBits(a, b) == ToBits(MulLimbs(ToLimbs(a), ToLimbs(b)))

\* a < b, for trimmed a and b.
LessBits(a, b) ==
  IF Len(a) # Len(b) THEN Len(a) < Len(b)
  ELSE \E i \in 1..Len(a) :
         a[i] < b[i] /\ \A j \in (i + 1)..Len(a) : a[j] = b[j]

FlZero == [neg |-> FALSE, man |-> << >>, exp |-> 0]

\* The canonical form: low zero bits of the significand move to the exponent.
Normalize(neg, b, e) ==
  LET ones == {i \in 1..Len(b) : b[i] = 1}
  IN  IF ones = {} THEN FlZero
      ELSE LET low == CHOOSE i \in ones : \A j \in ones : i <= j
           IN  [neg |-> neg, man |-> SubSeq(b, low, Len(b)),
                exp |-> e + low - 1]

\* Round the exact value bits * 2^e to Precision bits, to nearest, ties to even.
Round(neg, bits, e) ==
  LET b == Trim(bits)
  IN  IF Len(b) <= Precision THEN Normalize(neg, b, e)
      ELSE LET drop == Len(b) - Precision
               kept == SubSeq(b, drop + 1, Len(b))
               half == b[drop] = 1
               rest == \E i \in 1..(drop - 1) : b[i] = 1
               up   == half /\ (rest \/ kept[1] = 1)
           IN  Normalize(neg,
                         IF up THEN AddBits(kept, <<1>>) ELSE kept,
                         e + drop)

\* int -> float
FlFromInt(n) == Round(n < 0, Bits(Abs(n)), 0)

FlNeg(x) == IF x.man = << >> THEN x ELSE [x EXCEPT !.neg = ~x.neg]

\* x * y
FlMul(x, y) == Round(x.neg # y.neg, MulBits(x.man, y.man), x.exp + y.exp)

\* x + y
FlAdd(x, y) ==
  LET e == MinOf(x.exp, y.exp)
      a == Shl(x.man, x.exp - e)
      b == Shl(y.man, y.exp - e)
  IN  IF x.man = << >> THEN y
      ELSE IF y.man = << >> THEN x
      ELSE IF x.neg = y.neg THEN Round(x.neg, AddBits(a, b), e)
      ELSE IF LessBits(a, b) THEN Round(y.neg, SubBits(b, a), e)
      ELSE Round(x.neg, SubBits(a, b), e)

\* x - y
FlSub(x, y) == FlAdd(x, FlNeg(y))

\* The first k limbs (least significant first) of the fraction rem / d,
\* for d < 2^16, below a lowest limb that is 1 iff the division is not exact.
RECURSIVE FractionLimbs(_, _, _)
FractionLimbs(rem, d, k) ==
  IF k = 0 THEN <<(IF rem = 0 THEN 0 ELSE 1)>>
  ELSE FractionLimbs((rem * Base) % d, d, k - 1) \o <<(rem * Base) \div d>>

\* Python's n / d for ints 0 <= n < 2^15 and 0 < d < 2^16: the correctly
\* rounded quotient.
TrueDiv(n, d) ==
  Round(FALSE,
        ToBits(FractionLimbs(n % d, d, DivFractionLimbs) \o <<n \div d>>),
        -(LimbBits * (DivFractionLimbs + 1)))

\* Whether the float x is exactly the rational num / den (den > 0).
FlIsRatio(x, num, den) ==
  IF num = 0 THEN x.man = << >>
  ELSE /\ x.man # << >>
       /\ x.neg = (num < 0)
       /\ IF x.exp >= 0
            THEN MulBits(Shl(x.man, x.exp), Bits(den)) = Bits(Abs(num))
            ELSE MulBits(x.man, Bits(den)) = Shl(Bits(Abs(num)), -x.exp)

\* The value of a float that holds a natural number.
IntValue(x) ==
  IF x.man = << >> THEN 0
  ELSE BitsValue(Shl(x.man, x.exp), 1, Len(x.man) + x.exp)

\* ------------------------------------------------------------------------
\* Financial calculator (create_quotation and update_quotation, inlined)
\* ------------------------------------------------------------------------

\* sum(item.total for item in items): Python's sum, left to right from 0.
RECURSIVE SumTotals(_, _)
SumTotals(items, acc) ==
  IF items = << >> THEN acc
  ELSE SumTotals(Tail(items), FlAdd(acc, Head(items).total))

ComputeTotals(items, discount_amount, tax_rate) ==
  LET subtotal       == SumTotals(items, FlZero)
      taxable_amount == FlSub(subtotal, discount_amount)
      tax_amount     == FlMul(taxable_amount, TrueDiv(tax_rate, 100))
      total          == FlAdd(taxable_amount, tax_amount)
  IN  [subtotal |-> subtotal, tax_amount |-> tax_amount, total |-> total]

\* ------------------------------------------------------------------------
\* Data
\* ------------------------------------------------------------------------

\* Optional values: None is << >>, a set value v is <<v>>.
None == << >>

Some(v) == <<v>>

\* The tenants: the ids of the rows of the users table.
Users == {"u1", "u2"}

\* The row register inserts (new_user), with the id the store gives it.
NewUser(id, body) ==
  [id |-> id, email |-> body.email,
   password_hash |-> <<"bcrypt", body.password>>,
   full_name |-> body.full_name, company |-> None,
   subscription_plan |-> "free", subscription_status |-> "active",
   default_tax_rate |-> 20]

\* The rows of the two tenants.
TenantRows ==
  { NewUser("u1", [email |-> "a@x.tr", password |-> "pw-a", full_name |-> "A"]),
    NewUser("u2", [email |-> "b@x.tr", password |-> "pw-b", full_name |-> "B"]) }

\* One customer row per tenant.
CustomerRows ==
  { [id |-> "c1", user_id |-> "u1", name |-> "Acme"],
    [id |-> "c2", user_id |-> "u2", name |-> "Birlik"] }

CustomerIds == {c.id : c \in CustomerRows}

\* ProductCreate payloads (class ProductCreate); specifications is None when
\* the request does not set it.
ProductCreates ==
  [name : {"Widget", "Widget Pro"}, price : {FlFromInt(100), FlFromInt(120)},
   specifications : {None, Some("steel")}]

\* new_product of create_product: product.dict() with its defaults, the
\* owner, and the id the store gives the row.
NewProduct(id, u, product) ==
  [id |-> id, user_id |-> u, name |-> product.name, price |-> product.price,
   stock |-> 0, unit |-> "adet", specifications |-> product.specifications]

\* One product row per tenant: the products the stored items were copied
\* from.
ProductRows ==
  { NewProduct("pr1", "u1", [name |-> "Widget", price |-> FlFromInt(100),
                             specifications |-> None]),
    NewProduct("pr2", "u2", [name |-> "Gasket", price |-> FlFromInt(50),
                             specifications |-> Some("steel")]) }

\* The ids the store gives to the product rows it inserts, in order.
NewProductIds == <<"pr3">>

\* The product ids requests name: the stored rows and the rows created.
ProductIds ==
  {r.id : r \in ProductRows} \cup {NewProductIds[i] : i \in DOMAIN NewProductIds}

\* QuotationItem payloads (class QuotationItem): snapshots sent by the caller.
ItemA ==
  [product_name |-> "Widget", specifications |-> None, quantity |-> 1,
   unit |-> "adet", unit_price |-> FlFromInt(100), total |-> FlFromInt(100)]

ItemB ==
  [product_name |-> "Gasket", specifications |-> Some("steel"), quantity |-> 1,
   unit |-> "adet", unit_price |-> FlFromInt(50), total |-> FlFromInt(50)]

\* The item lists requests carry; List[QuotationItem] admits the empty list.
ItemLists == { << >>, <<ItemA>>, <<ItemA, ItemB>> }

\* QuotationCreate payloads (class QuotationCreate).
QuotationCreates ==
  [customer_id : CustomerIds, items : ItemLists,
   discount_amount : {FlFromInt(0), FlFromInt(50)}, tax_rate : {20},
   notes : {None}]

\* The calculator's results for the payloads, computed once.
TotalsTable ==
  {[body |-> body,
    totals |-> ComputeTotals(body.items, body.discount_amount, body.tax_rate)] :
   body \in QuotationCreates}

Totals(body) == (CHOOSE t \in TotalsTable : t.body = body).totals

\* generate_quotation_number: timestamp and random digits, not checked for
\* collision; one of its values.
QuotationNumbers == {"Q-20240101120000-1000"}

QuotationIds == 1..MaxQuotations

ReminderIds == 1..MaxReminders

\* PaymentUpdate payloads (class PaymentUpdate) after dict(exclude_unset=True):
\* payment_status always, each optional field only when the request sets it.
PaymentUpdates ==
  [payment_status : {"paid", "unpaid", "partial"},
   payment_date : {None, Some("2024-02-01")},
   payment_amount : {None, Some(FlFromInt(100)), Some(FlFromInt(180))},
   payment_notes : {None, Some("havale")}]

\* What a store write can do: apply and return its rows, return no rows
\* without applying, or raise.
WriteOutcomes == {"ok", "no_rows", "error"}

Procs == {"p1", "p2"}

Idle == [op |-> "idle"]

NoResponse == [status |-> 0]

VARIABLES
  users,              \* table users: a set of rows
  next_user_id,       \* ids the store has given to user rows, plus one
  products,           \* table products
  next_product_id,    \* ids the store has given to product rows, plus one
  customers,          \* table customers
  quotations,         \* table quotations: a set of rows
  quotation_items,    \* table quotation_items: rows in insertion order
  reminders,          \* table reminders
  next_quotation_id,  \* ids the store has given to quotation rows, plus one
  next_reminder_id,
  requests,           \* per request slot: the handler running and its locals
  response,           \* what the last step returned to its caller, if anything
  faults,             \* store writes that have failed so far
  calc_in,            \* calculator run: inputs
  calc_out            \* calculator run: outputs

auth == <<users, next_user_id>>

catalog == <<products, next_product_id>>

store == <<auth, catalog, customers, quotations, quotation_items, reminders,
           next_quotation_id, next_reminder_id>>

calc == <<calc_in, calc_out>>

vars == <<store, requests, response, faults, calc>>

\* A write that does not apply is one more of the MaxFaults failures.
Inject(out) ==
  /\ out = "ok" \/ faults < MaxFaults
  /\ faults' = IF out = "ok" THEN faults ELSE faults + 1

\* ------------------------------------------------------------------------
\* Store queries
\* ------------------------------------------------------------------------

\* select("*").eq("quotation_id", id) on quotation_items
ItemsOf(items, id) == SelectSeq(items, LAMBDA r : r.quotation_id = id)

\* The rows inserted for the items of a request.
ItemRows(id, items) ==
  [i \in 1..Len(items) |-> [quotation_id |-> id, item |-> items[i]]]

\* The embedded customers(*) of a quotation row: the row its customer_id
\* references, whoever owns it.
EmbeddedCustomer(q) ==
  LET found == {c \in customers : c.id = q.customer_id}
  IN  IF found = {} THEN None ELSE Some(CHOOSE c \in found : TRUE)

HttpError(p, u, op, code) ==
  [proc |-> p, user |-> u, op |-> op, status |-> code]

\* The response to a request on one row of a table (with the id it names).
RowResponse(p, u, op, id, code) ==
  [proc |-> p, user |-> u, op |-> op, status |-> code, target |-> id]

Finish(p, r) ==
  /\ requests' = [requests EXCEPT ![p] = Idle]
  /\ response' = r

Continue(p, req) ==
  /\ requests' = [requests EXCEPT ![p] = req]
  /\ response' = NoResponse

\* The response of the request that just ended goes out to its caller.
SendResponse ==
  /\ response # NoResponse
  /\ response' = NoResponse
  /\ UNCHANGED <<store, requests, faults, calc>>

\* ------------------------------------------------------------------------
\* create_quotation
\* ------------------------------------------------------------------------

\* new_quotation: the header create_quotation inserts, with the id and the
\* column defaults the store gives it.
NewQuotation(id, u, body, number) ==
  LET t == Totals(body)
  IN  [id |-> id, user_id |-> u, customer_id |-> body.customer_id,
       quotation_number |-> number, subtotal |-> t.subtotal,
       discount_amount |-> body.discount_amount, tax_rate |-> body.tax_rate,
       tax_amount |-> t.tax_amount, total |-> t.total, notes |-> body.notes,
       status |-> "pending", payment_status |-> "unpaid",
       payment_date |-> None, payment_amount |-> None,
       payment_notes |-> None]

\* The totals and the insert of the header; "Failed to create quotation" when
\* the insert returns no rows.  customer_id is a foreign key (the handlers
\* embed customers(*) through it): a missing customer makes the insert raise.
CqInsertHeader(p, u, body, number, out) ==
  /\ response = NoResponse
  /\ Inject(out)
  /\ requests[p] = Idle
  /\ next_quotation_id <= MaxQuotations
  /\ IF out = "ok" /\ body.customer_id \in {c.id : c \in customers}
       THEN /\ quotations' = quotations \cup
                 {NewQuotation(next_quotation_id, u, body, number)}
            /\ next_quotation_id' = next_quotation_id + 1
            /\ Continue(p, [op |-> "create_quotation", pc |-> "insert_items",
                            user |-> u, quotation_id |-> next_quotation_id,
                            body |-> body])
       ELSE /\ Finish(p, HttpError(p, u, "create_quotation", 500))
            /\ UNCHANGED <<quotations, next_quotation_id>>
  /\ UNCHANGED <<auth, catalog, customers, quotation_items, reminders, next_reminder_id, calc>>

\* An insert of the item rows that deletes the header when it fails.
InsertItemsRollback(p, op, out) ==
  /\ response = NoResponse
  /\ Inject(out)
  /\ requests[p].op = op
  /\ requests[p].pc = "insert_items"
  /\ IF out = "ok"
       THEN /\ quotation_items' = quotation_items \o
                 ItemRows(requests[p].quotation_id, requests[p].body.items)
            /\ Continue(p, [requests[p] EXCEPT !.pc = "select_header"])
            /\ UNCHANGED quotations
       ELSE /\ quotations' =
                 {q \in quotations : q.id # requests[p].quotation_id}
            /\ Finish(p, HttpError(p, requests[p].user, op, 500))
            /\ UNCHANGED quotation_items
  /\ UNCHANGED <<auth, catalog, customers, reminders, next_quotation_id,
                 next_reminder_id, calc>>

\* The insert of the item rows.  Its result is not looked at: only an
\* exception ends the request.
InsertItems(p, op, out) ==
  /\ response = NoResponse
  /\ Inject(out)
  /\ requests[p].op = op
  /\ requests[p].pc = "insert_items"
  /\ CASE out = "ok" ->
            /\ quotation_items' = quotation_items \o
                 ItemRows(requests[p].quotation_id, requests[p].body.items)
            /\ Continue(p, [requests[p] EXCEPT !.pc = "select_header"])
       [] out = "no_rows" ->
            /\ Continue(p, [requests[p] EXCEPT !.pc = "select_header"])
            /\ UNCHANGED quotation_items
       [] out = "error" ->
            /\ Finish(p, HttpError(p, requests[p].user, op, 500))
            /\ UNCHANGED quotation_items
  /\ UNCHANGED <<auth, catalog, customers, quotations, reminders, next_quotation_id,
                 next_reminder_id, calc>>

CqInsertItems(p, out) == InsertItems(p, "create_quotation", out)

\* The read of the header with its customer, by id alone; data[0] of an
\* empty result raises.
SelectHeader(p, op) ==
  /\ response = NoResponse
  /\ requests[p].op = op
  /\ requests[p].pc = "select_header"
  /\ LET found == {q \in quotations : q.id = requests[p].quotation_id}
     IN  IF found = {}
           THEN Finish(p, HttpError(p, requests[p].user, op, 500))
           ELSE LET q == CHOOSE q \in found : TRUE
                IN  Continue(p, [op |-> op, pc |-> "select_items",
                                 user |-> requests[p].user,
                                 quotation_id |-> requests[p].quotation_id,
                                 body |-> requests[p].body,
                                 result |-> q,
                                 customer |-> EmbeddedCustomer(q)])
  /\ UNCHANGED <<store, faults, calc>>

CqSelectHeader(p) == SelectHeader(p, "create_quotation")

\* The read of the items, and the response.
SelectItems(p, op) ==
  /\ response = NoResponse
  /\ requests[p].op = op
  /\ requests[p].pc = "select_items"
  /\ Finish(p, [proc |-> p, user |-> requests[p].user, op |-> op,
                status |-> 200, quotation |-> requests[p].result,
                customer |-> requests[p].customer,
                items |-> ItemsOf(quotation_items, requests[p].quotation_id)])
  /\ UNCHANGED <<store, faults, calc>>

CqSelectItems(p) == SelectItems(p, "create_quotation")

\* ------------------------------------------------------------------------
\* update_quotation
\* ------------------------------------------------------------------------

\* An update that writes the row anew: the fields of update_data, and
\* status and the payment fields as create_quotation sets them.
UpdatedQuotationAnew(q, body) ==
  LET t == Totals(body)
  IN  [q EXCEPT !.customer_id = body.customer_id,
                !.subtotal = t.subtotal,
                !.discount_amount = body.discount_amount,
                !.tax_rate = body.tax_rate,
                !.tax_amount = t.tax_amount,
                !.total = t.total,
                !.notes = body.notes,
                !.status = "revised",
                !.payment_status = "unpaid",
                !.payment_date = None,
                !.payment_amount = None,
                !.payment_notes = None]

\* update_data applied to a header row.
UpdatedQuotation(q, body) ==
  LET t == Totals(body)
  IN  [q EXCEPT !.customer_id = body.customer_id,
                !.subtotal = t.subtotal,
                !.discount_amount = body.discount_amount,
                !.tax_rate = body.tax_rate,
                !.tax_amount = t.tax_amount,
                !.total = t.total,
                !.notes = body.notes]

\* The rows of the caller that a filter on id and user_id matches.
Owned(id, u) == {q \in quotations : q.id = id /\ q.user_id = u}

\* The totals and the update of the header, filtered by id and owner;
\* "Quotation not found" when it returns no rows.
UqUpdateHeader(p, u, id, body, out) ==
  /\ response = NoResponse
  /\ Inject(out)
  /\ requests[p] = Idle
  /\ CASE out = "ok" /\ Owned(id, u) # {}
            /\ body.customer_id \in {c.id : c \in customers} ->
            /\ quotations' = (quotations \ Owned(id, u)) \cup
                 {UpdatedQuotation(q, body) : q \in Owned(id, u)}
            /\ Continue(p, [op |-> "update_quotation", pc |-> "delete_items",
                            user |-> u, quotation_id |-> id, body |-> body])
       [] out = "error" \/ (out = "ok" /\ Owned(id, u) # {}
            /\ body.customer_id \notin {c.id : c \in customers}) ->
            /\ Finish(p, RowResponse(p, u, "update_quotation", id, 500))
            /\ UNCHANGED quotations
       [] OTHER ->
            /\ Finish(p, RowResponse(p, u, "update_quotation", id, 404))
            /\ UNCHANGED quotations
  /\ UNCHANGED <<auth, catalog, customers, quotation_items, reminders, next_quotation_id,
                 next_reminder_id, calc>>

\* update_quotation without the delete of the old item rows.
UqDeleteItemsSkipped(p, out) ==
  /\ response = NoResponse
  /\ Inject(out)
  /\ requests[p].op = "update_quotation"
  /\ requests[p].pc = "delete_items"
  /\ Continue(p, [requests[p] EXCEPT !.pc = "insert_items"])
  /\ UNCHANGED <<auth, catalog, customers, quotations, quotation_items, reminders,
                 next_quotation_id, next_reminder_id, calc>>

\* The delete of the old item rows; its result is not looked at.
UqDeleteItems(p, out) ==
  /\ response = NoResponse
  /\ Inject(out)
  /\ requests[p].op = "update_quotation"
  /\ requests[p].pc = "delete_items"
  /\ CASE out = "ok" ->
            /\ quotation_items' = SelectSeq(quotation_items,
                 LAMBDA r : r.quotation_id # requests[p].quotation_id)
            /\ Continue(p, [requests[p] EXCEPT !.pc = "insert_items"])
       [] out = "no_rows" ->
            /\ Continue(p, [requests[p] EXCEPT !.pc = "insert_items"])
            /\ UNCHANGED quotation_items
       [] out = "error" ->
            /\ Finish(p, HttpError(p, requests[p].user, "update_quotation", 500))
            /\ UNCHANGED quotation_items
  /\ UNCHANGED <<auth, catalog, customers, quotations, reminders, next_quotation_id,
                 next_reminder_id, calc>>

UqInsertItems(p, out) == InsertItems(p, "update_quotation", out)

UqSelectHeader(p) == SelectHeader(p, "update_quotation")

UqSelectItems(p) == SelectItems(p, "update_quotation")

\* ------------------------------------------------------------------------
\* get_quotation
\* ------------------------------------------------------------------------

\* The read of the header with its customer, filtered by id and owner.
GqSelectHeader(p, u, id) ==
  /\ response = NoResponse
  /\ requests[p] = Idle
  /\ IF Owned(id, u) = {}
       THEN Finish(p, HttpError(p, u, "get_quotation", 404))
       ELSE LET q == CHOOSE q \in Owned(id, u) : TRUE
            IN  Continue(p, [op |-> "get_quotation", pc |-> "select_items",
                             user |-> u, quotation_id |-> id,
                             result |-> q, customer |-> EmbeddedCustomer(q)])
  /\ UNCHANGED <<store, faults, calc>>

GqSelectItems(p) == SelectItems(p, "get_quotation")

\* ------------------------------------------------------------------------
\* update_payment_status
\* ------------------------------------------------------------------------

\* payment.dict() applied to a header row: the fields the request leaves
\* unset are written as None.
PaidQuotationAllFields(q, payment) ==
  [q EXCEPT !.payment_status = payment.payment_status,
            !.payment_date = payment.payment_date,
            !.payment_amount = payment.payment_amount,
            !.payment_notes = payment.payment_notes]

\* payment.dict(exclude_unset=True) applied to a header row.
PaidQuotation(q, payment) ==
  [q EXCEPT
     !.payment_status = payment.payment_status,
     !.payment_date =
        IF payment.payment_date = None THEN @ ELSE payment.payment_date,
     !.payment_amount =
        IF payment.payment_amount = None THEN @ ELSE payment.payment_amount,
     !.payment_notes =
        IF payment.payment_notes = None THEN @ ELSE payment.payment_notes]

\* The response to an update_payment_status request (with the request it
\* answers).
PaymentResponse(p, u, id, payment, code) ==
  [proc |-> p, user |-> u, op |-> "update_payment_status", status |-> code,
   quotation_id |-> id, payment |-> payment]

\* The update of the header with the fields of the request, filtered by id
\* and owner; "Quotation not found" when it returns no rows.
UpdatePaymentStatus(p, u, id, payment, out) ==
  /\ response = NoResponse
  /\ Inject(out)
  /\ requests[p] = Idle
  /\ CASE out = "ok" /\ Owned(id, u) # {} ->
            /\ quotations' = (quotations \ Owned(id, u)) \cup
                 {PaidQuotation(q, payment) : q \in Owned(id, u)}
            /\ Finish(p, [quotation |-> PaidQuotation(
                             CHOOSE q \in Owned(id, u) : TRUE, payment)]
                         @@ PaymentResponse(p, u, id, payment, 200))
       [] out = "error" ->
            /\ Finish(p, PaymentResponse(p, u, id, payment, 500))
            /\ UNCHANGED quotations
       [] OTHER ->
            /\ Finish(p, PaymentResponse(p, u, id, payment, 404))
            /\ UNCHANGED quotations
  /\ UNCHANGED <<auth, catalog, customers, quotation_items, reminders, next_quotation_id,
                 next_reminder_id, calc>>

\* ------------------------------------------------------------------------
\* Reminders and customers
\* ------------------------------------------------------------------------

\* ReminderCreate payloads (class ReminderCreate).
ReminderCreates ==
  [quotation_id : QuotationIds, reminder_date : {"2024-03-01"},
   message : {"ara"}]

\* The insert of a reminder for any quotation id the caller names;
\* quotation_id is a foreign key (get_reminders embeds quotations through
\* it): a missing quotation makes the insert raise.
CreateReminder(p, u, body, out) ==
  /\ response = NoResponse
  /\ Inject(out)
  /\ requests[p] = Idle
  /\ next_reminder_id <= MaxReminders
  /\ IF out = "ok" /\ body.quotation_id \in {q.id : q \in quotations}
       THEN LET row == [id |-> next_reminder_id, user_id |-> u,
                        quotation_id |-> body.quotation_id,
                        reminder_date |-> body.reminder_date,
                        message |-> body.message, sent |-> FALSE]
            IN  /\ reminders' = reminders \cup {row}
                /\ next_reminder_id' = next_reminder_id + 1
                /\ Finish(p, [proc |-> p, user |-> u, op |-> "create_reminder",
                              status |-> 200, reminder |-> row])
       ELSE /\ Finish(p, HttpError(p, u, "create_reminder", 500))
            /\ UNCHANGED <<reminders, next_reminder_id>>
  /\ UNCHANGED <<auth, catalog, customers, quotations, quotation_items, next_quotation_id,
                 calc>>

\* The embedded quotations(quotation_number, customers(*)) of a reminder row.
EmbeddedQuotation(r) ==
  LET found == {q \in quotations : q.id = r.quotation_id}
  IN  IF found = {} THEN None
      ELSE LET q == CHOOSE q \in found : TRUE
           IN  Some([quotation_number |-> q.quotation_number,
                     customers |-> EmbeddedCustomer(q)])

\* The caller's reminders, each with its embedded quotation.
GetReminders(p, u) ==
  /\ response = NoResponse
  /\ requests[p] = Idle
  /\ Finish(p, [proc |-> p, user |-> u, op |-> "get_reminders",
                status |-> 200,
                reminders |-> {[reminder |-> r,
                                quotations |-> EmbeddedQuotation(r)] :
                               r \in {x \in reminders : x.user_id = u}}])
  /\ UNCHANGED <<store, faults, calc>>

\* The customer with the id, filtered by owner.
GetCustomer(p, u, id) ==
  /\ response = NoResponse
  /\ requests[p] = Idle
  /\ LET found == {c \in customers : c.id = id /\ c.user_id = u}
     IN  IF found = {}
           THEN Finish(p, HttpError(p, u, "get_customer", 404))
           ELSE Finish(p, [proc |-> p, user |-> u, op |-> "get_customer",
                           status |-> 200,
                           customer |-> CHOOSE c \in found : TRUE])
  /\ UNCHANGED <<store, faults, calc>>

\* ------------------------------------------------------------------------
\* Updates and deletes of customers, quotations and reminders
\* ------------------------------------------------------------------------

\* CustomerCreate payloads of update_customer, on the field name.
CustomerUpdates == [name : {"Acme AS"}]

\* update_customer: the update with customer.dict(exclude_unset=True),
\* filtered by id and owner; "Customer not found" when it returns no rows.
UpdateCustomer(p, u, id, customer, out) ==
  /\ response = NoResponse
  /\ Inject(out)
  /\ requests[p] = Idle
  /\ LET mine == {c \in customers : c.id = id /\ c.user_id = u}
     IN  CASE out = "ok" /\ mine # {} ->
                /\ customers' = (customers \ mine) \cup
                     {[c EXCEPT !.name = customer.name] : c \in mine}
                /\ Finish(p, RowResponse(p, u, "update_customer", id, 200))
           [] out = "error" ->
                /\ Finish(p, RowResponse(p, u, "update_customer", id, 500))
                /\ UNCHANGED customers
           [] OTHER ->
                /\ Finish(p, RowResponse(p, u, "update_customer", id, 404))
                /\ UNCHANGED customers
  /\ UNCHANGED <<auth, catalog, quotations, quotation_items, reminders,
                 next_quotation_id, next_reminder_id, calc>>

\* delete_customer: the delete filtered by id and owner.
DeleteCustomer(p, u, id, out) ==
  /\ response = NoResponse
  /\ Inject(out)
  /\ requests[p] = Idle
  /\ LET mine == {c \in customers : c.id = id /\ c.user_id = u}
     IN  CASE out = "ok" /\ mine # {} ->
                /\ customers' = customers \ mine
                /\ Finish(p, RowResponse(p, u, "delete_customer", id, 200))
           [] out = "error" ->
                /\ Finish(p, RowResponse(p, u, "delete_customer", id, 500))
                /\ UNCHANGED customers
           [] OTHER ->
                /\ Finish(p, RowResponse(p, u, "delete_customer", id, 404))
                /\ UNCHANGED customers
  /\ UNCHANGED <<auth, catalog, quotations, quotation_items, reminders,
                 next_quotation_id, next_reminder_id, calc>>

\* A delete of the header filtered by id alone.
DeleteQuotationUnfiltered(p, u, id, out) ==
  /\ response = NoResponse
  /\ Inject(out)
  /\ requests[p] = Idle
  /\ LET found == {q \in quotations : q.id = id}
     IN  IF out = "ok" /\ found # {}
           THEN /\ quotations' = quotations \ found
                /\ Finish(p, RowResponse(p, u, "delete_quotation", id, 200))
           ELSE /\ Finish(p, RowResponse(p, u, "delete_quotation", id, 404))
                /\ UNCHANGED quotations
  /\ UNCHANGED <<auth, catalog, customers, quotation_items, reminders,
                 next_quotation_id, next_reminder_id, calc>>

\* delete_quotation: the delete of the header, filtered by id and owner;
\* the handler issues no delete on quotation_items.
DeleteQuotation(p, u, id, out) ==
  /\ response = NoResponse
  /\ Inject(out)
  /\ requests[p] = Idle
  /\ CASE out = "ok" /\ Owned(id, u) # {} ->
            /\ quotations' = quotations \ Owned(id, u)
            /\ Finish(p, RowResponse(p, u, "delete_quotation", id, 200))
       [] out = "error" ->
            /\ Finish(p, RowResponse(p, u, "delete_quotation", id, 500))
            /\ UNCHANGED quotations
       [] OTHER ->
            /\ Finish(p, RowResponse(p, u, "delete_quotation", id, 404))
            /\ UNCHANGED quotations
  /\ UNCHANGED <<auth, catalog, customers, quotation_items, reminders,
                 next_quotation_id, next_reminder_id, calc>>

\* send_reminder: the update {"sent": True}, filtered by id and owner.
SendReminder(p, u, id, out) ==
  /\ response = NoResponse
  /\ Inject(out)
  /\ requests[p] = Idle
  /\ LET mine == {r \in reminders : r.id = id /\ r.user_id = u}
     IN  CASE out = "ok" /\ mine # {} ->
                /\ reminders' = (reminders \ mine) \cup
                     {[r EXCEPT !.sent = TRUE] : r \in mine}
                /\ Finish(p, RowResponse(p, u, "send_reminder", id, 200))
           [] out = "error" ->
                /\ Finish(p, RowResponse(p, u, "send_reminder", id, 500))
                /\ UNCHANGED reminders
           [] OTHER ->
                /\ Finish(p, RowResponse(p, u, "send_reminder", id, 404))
                /\ UNCHANGED reminders
  /\ UNCHANGED <<auth, catalog, customers, quotations, quotation_items,
                 next_quotation_id, next_reminder_id, calc>>

\* delete_reminder: the delete filtered by id and owner.
DeleteReminder(p, u, id, out) ==
  /\ response = NoResponse
  /\ Inject(out)
  /\ requests[p] = Idle
  /\ LET mine == {r \in reminders : r.id = id /\ r.user_id = u}
     IN  CASE out = "ok" /\ mine # {} ->
                /\ reminders' = reminders \ mine
                /\ Finish(p, RowResponse(p, u, "delete_reminder", id, 200))
           [] out = "error" ->
                /\ Finish(p, RowResponse(p, u, "delete_reminder", id, 500))
                /\ UNCHANGED reminders
           [] OTHER ->
                /\ Finish(p, RowResponse(p, u, "delete_reminder", id, 404))
                /\ UNCHANGED reminders
  /\ UNCHANGED <<auth, catalog, customers, quotations, quotation_items,
                 next_quotation_id, next_reminder_id, calc>>

\* ------------------------------------------------------------------------
\* Products
\* ------------------------------------------------------------------------

\* create_product: the insert of new_product.
CreateProduct(p, u, product, out) ==
  /\ response = NoResponse
  /\ Inject(out)
  /\ requests[p] = Idle
  /\ next_product_id <= Len(NewProductIds)
  /\ IF out = "ok"
       THEN LET row == NewProduct(NewProductIds[next_product_id], u, product)
            IN  /\ products' = products \cup {row}
                /\ next_product_id' = next_product_id + 1
                /\ Finish(p, [product |-> row]
                             @@ RowResponse(p, u, "create_product", row.id, 200))
       ELSE /\ Finish(p, [proc |-> p, user |-> u, op |-> "create_product",
                          status |-> 500])
            /\ UNCHANGED catalog
  /\ UNCHANGED <<auth, customers, quotations, quotation_items, reminders,
                 next_quotation_id, next_reminder_id, calc>>

\* The product rows a filter on id and user_id matches.
OwnedProducts(id, u) == {r \in products : r.id = id /\ r.user_id = u}

\* product.dict(exclude_unset=True) applied to a product row.
UpdatedProduct(row, product) ==
  [row EXCEPT !.name = product.name,
              !.price = product.price,
              !.specifications =
                 IF product.specifications = None THEN @
                 ELSE product.specifications]

\* update_product that also rewrites the item rows copied from the product.
UpdateProductLive(p, u, id, product, out) ==
  /\ response = NoResponse
  /\ Inject(out)
  /\ requests[p] = Idle
  /\ IF out = "ok" /\ OwnedProducts(id, u) # {}
       THEN LET old == CHOOSE r \in OwnedProducts(id, u) : TRUE
            IN  /\ products' = (products \ {old}) \cup
                                 {UpdatedProduct(old, product)}
                /\ quotation_items' =
                     [i \in DOMAIN quotation_items |->
                        IF quotation_items[i].item.product_name = old.name
                          THEN [quotation_items[i] EXCEPT
                                  !.item.product_name = product.name,
                                  !.item.unit_price = product.price]
                          ELSE quotation_items[i]]
                /\ Finish(p, [product |-> UpdatedProduct(old, product)]
                             @@ RowResponse(p, u, "update_product", id, 200))
       ELSE /\ Finish(p, RowResponse(p, u, "update_product", id, 404))
            /\ UNCHANGED <<products, quotation_items>>
  /\ UNCHANGED <<auth, next_product_id, customers, quotations, reminders,
                 next_quotation_id, next_reminder_id, calc>>

\* update_product: the update filtered by id and owner; "Product not found"
\* when it returns no rows; a store error is not caught.
UpdateProduct(p, u, id, product, out) ==
  /\ response = NoResponse
  /\ Inject(out)
  /\ requests[p] = Idle
  /\ CASE out = "ok" /\ OwnedProducts(id, u) # {} ->
            LET old == CHOOSE r \in OwnedProducts(id, u) : TRUE
            IN  /\ products' = (products \ {old}) \cup
                                 {UpdatedProduct(old, product)}
                /\ Finish(p, [product |-> UpdatedProduct(old, product)]
                             @@ RowResponse(p, u, "update_product", id, 200))
       [] out = "error" ->
            /\ Finish(p, RowResponse(p, u, "update_product", id, 500))
            /\ UNCHANGED products
       [] OTHER ->
            /\ Finish(p, RowResponse(p, u, "update_product", id, 404))
            /\ UNCHANGED products
  /\ UNCHANGED <<auth, next_product_id, customers, quotations,
                 quotation_items, reminders, next_quotation_id,
                 next_reminder_id, calc>>

\* delete_product: the delete filtered by id and owner.
DeleteProduct(p, u, id, out) ==
  /\ response = NoResponse
  /\ Inject(out)
  /\ requests[p] = Idle
  /\ CASE out = "ok" /\ OwnedProducts(id, u) # {} ->
            /\ products' = products \ OwnedProducts(id, u)
            /\ Finish(p, RowResponse(p, u, "delete_product", id, 200))
       [] out = "error" ->
            /\ Finish(p, RowResponse(p, u, "delete_product", id, 500))
            /\ UNCHANGED products
       [] OTHER ->
            /\ Finish(p, RowResponse(p, u, "delete_product", id, 404))
            /\ UNCHANGED products
  /\ UNCHANGED <<auth, next_product_id, customers, quotations,
                 quotation_items, reminders, next_quotation_id,
                 next_reminder_id, calc>>

\* get_products: the caller's product rows.
GetProducts(p, u) ==
  /\ response = NoResponse
  /\ requests[p] = Idle
  /\ Finish(p, [proc |-> p, user |-> u, op |-> "get_products",
                status |-> 200,
                products |-> {r \in products : r.user_id = u}])
  /\ UNCHANGED <<store, faults, calc>>

\* ------------------------------------------------------------------------
\* generate_quotation_pdf
\* ------------------------------------------------------------------------

\* The slice bounds of the three texts the document draws.
NameChars == 40

SpecificationsChars == 60

NotesChars == 100

\* Texts are sequences of characters; Text(n) is a text of n characters in
\* which neighbouring characters differ.
Alphabet == <<"a", "b", "c", "d", "e", "f", "g">>

Text(n) == [i \in 1..n |-> Alphabet[((i - 1) % Len(Alphabet)) + 1]]

\* The lengths tried around a slice bound: one character, and from one under
\* the bound to MaxOver over it.
LengthsAround(bound) == {1} \cup ((bound - 1)..(bound + MaxOver))

\* An optional text column: null, the empty text, or a text.
OptionalTexts(bound) ==
  {None, Some(Text(0))} \cup {Some(Text(n)) : n \in LengthsAround(bound)}

\* The Python slice s[:n] of a text, for n >= 0.
Untruncated(s, n) == s

Truncate(s, n) == SubSeq(s, 1, MinOf(n, Len(s)))

\* The f-string of the specifications line: two spaces, then the text.
Indent == <<" ", " ">>

\* A column that is null or empty is falsy: its line is not drawn.
Truthy(column) == column # None /\ column[1] # << >>

\* The text cells of the table row (and the specifications line under it)
\* drawn for one item row.
DrawnItem(item) ==
  [product_name |-> Truncate(item.product_name, NameChars),
   specifications |->
     IF Truthy(item.specifications)
       THEN Some(Indent \o Truncate(item.specifications[1],
                                    SpecificationsChars))
       ELSE None]

\* The header select, filtered by id and owner; "Quotation not found" when
\* it returns no rows.
PdfSelectHeader(p, u, id) ==
  /\ response = NoResponse
  /\ requests[p] = Idle
  /\ IF Owned(id, u) = {}
       THEN Finish(p, [quotation_id |-> id]
                      @@ HttpError(p, u, "generate_quotation_pdf", 404))
       ELSE LET q == CHOOSE q \in Owned(id, u) : TRUE
            IN  Continue(p, [op |-> "generate_quotation_pdf",
                             pc |-> "select_items", user |-> u,
                             quotation_id |-> id, result |-> q,
                             customer |-> EmbeddedCustomer(q)])
  /\ UNCHANGED <<store, faults, calc>>

\* The items select and the drawing: the texts of the item table in row
\* order and of the notes block, and the file name of the attachment.
PdfDraw(p) ==
  /\ response = NoResponse
  /\ requests[p].op = "generate_quotation_pdf"
  /\ requests[p].pc = "select_items"
  /\ LET q     == requests[p].result
         items == ItemsOf(quotation_items, requests[p].quotation_id)
     IN  Finish(p, [proc |-> p, user |-> requests[p].user,
                    op |-> "generate_quotation_pdf", status |-> 200,
                    quotation_id |-> requests[p].quotation_id,
                    media_type |-> "application/pdf",
                    filename |-> <<"teklif_", q.quotation_number, ".pdf">>,
                    items |-> [i \in DOMAIN items |-> DrawnItem(items[i].item)],
                    notes |-> IF Truthy(q.notes)
                                THEN Some(Truncate(q.notes[1], NotesChars))
                                ELSE None])
  /\ UNCHANGED <<store, faults, calc>>

\* ------------------------------------------------------------------------
\* update_settings
\* ------------------------------------------------------------------------

\* UserSettingsUpdate payloads, on three of its optional fields; None is a
\* field the request leaves out or sends as null.
UserSettingsUpdates ==
  [full_name : {None, Some("A. Yilmaz")}, company : {None, Some("Acme Ltd")},
   default_tax_rate : {None, Some(0), Some(18)}]

\* update_data: the fields of the payload that are not None.
UpdateData(settings) == {f \in DOMAIN settings : settings[f] # None}

\* A user row after an update that writes the payload's company whether it
\* is set or null.
UpdatedUserNullsWritten(row, settings) ==
  [f \in DOMAIN row |->
     IF f = "company" THEN settings[f]
     ELSE IF f \in UpdateData(settings) THEN settings[f][1]
     ELSE row[f]]

\* A user row after the update with update_data.  company is a nullable
\* column and holds an optional value; full_name and default_tax_rate hold
\* the value itself.
UpdatedUser(row, settings) ==
  [f \in DOMAIN row |->
     IF f \in UpdateData(settings)
       THEN (IF f = "company" THEN settings[f] ELSE settings[f][1])
       ELSE row[f]]

\* update_settings for the authenticated user u: "No data to update" when
\* update_data is empty, else the update filtered by the caller's id;
\* "Failed to update settings" when it returns no rows.
UpdateSettings(p, u, settings, out) ==
  /\ response = NoResponse
  /\ requests[p] = Idle
  /\ LET answer(code) == [proc |-> p, user |-> u, op |-> "update_settings",
                          status |-> code, settings |-> settings]
         mine == {r \in users : r.id = u}
     IN  IF UpdateData(settings) = {}
           THEN /\ Finish(p, answer(400))
                /\ UNCHANGED <<users, faults>>
           ELSE /\ Inject(out)
                /\ IF out = "ok" /\ mine # {}
                     THEN LET old == CHOOSE r \in mine : TRUE
                              new == UpdatedUser(old, settings)
                          IN  /\ users' = (users \ {old}) \cup {new}
                              /\ Finish(p, [profile |->
                                              [f \in DOMAIN new \ {"password_hash"}
                                                 |-> new[f]]]
                                           @@ answer(200))
                     ELSE /\ Finish(p, answer(500))
                          /\ UNCHANGED users
  /\ UNCHANGED <<next_user_id, catalog, customers, quotations,
                 quotation_items, reminders, next_quotation_id,
                 next_reminder_id, calc>>

\* ------------------------------------------------------------------------
\* Authentication
\* ------------------------------------------------------------------------

\* The ids the store gives to the user rows it inserts, in order.
UserIds == <<"u1", "u2", "u3">>

\* Number of user rows the store ever allocates an id for.
MaxUsers == Len(UserIds)

\* UserCreate payloads (class UserCreate).
UserCreates ==
  [email : {"a@x.tr", "b@x.tr"}, password : {"pw-a"}, full_name : {"A"}]

\* UserLogin payloads (class UserLogin).
UserLogins == [email : {"a@x.tr", "b@x.tr"}, password : {"pw-a", "pw-b"}]

\* create_access_token: a token signed with SECRET_KEY that carries user_id.
AccessToken(user_id) ==
  [kind |-> "signed", user_id |-> Some(user_id), expired |-> FALSE]

\* What a request's Authorization header can carry: nothing, a string that
\* is no JWT, a JWT signed with another key, or a JWT signed with SECRET_KEY,
\* with or without a user_id claim, before or after its exp.
Credentials ==
  {[kind |-> "missing"], [kind |-> "malformed"], [kind |-> "bad_signature"]}
  \cup [kind : {"signed"},
        user_id : {None} \cup {Some(UserIds[i]) : i \in 1..MaxUsers},
        expired : BOOLEAN]

\* The exception classes the module jwt (PyJWT: it has the module-level
\* encode and decode the server calls) exports.  JWTError is the name of
\* python-jose's base class; PyJWT's is PyJWTError.
JwtExports ==
  {"PyJWTError", "InvalidTokenError", "DecodeError",
   "InvalidSignatureError", "ExpiredSignatureError"}

\* jwt.decode(token, SECRET_KEY, algorithms=[ALGORITHM]): the payload, or
\* the exception raised.  The signature is verified before exp.
JwtDecode(token) ==
  CASE token.kind = "malformed" -> [raises |-> "DecodeError"]
    [] token.kind = "bad_signature" -> [raises |-> "InvalidSignatureError"]
    [] token.kind = "signed" /\ token.expired ->
         [raises |-> "ExpiredSignatureError"]
    [] OTHER -> [raises |-> "", user_id |-> token.user_id]

\* What HTTPBearer() answers to a request without bearer credentials: 403,
\* or 401 in the FastAPI releases that changed it.
BearerMissingStatus == {401, 403}

\* get_current_user behind Depends(security): the status and, on success,
\* the user row.  An exception raised in the try block is matched against
\* the except clauses in order; evaluating the clause jwt.JWTError raises
\* AttributeError when the module has no such name, and the request ends
\* with 500.
GetCurrentUser(cred, missing_status) ==
  LET decoded == JwtDecode(cred)
      raised  == IF decoded.raises # "" THEN decoded.raises
                 ELSE IF decoded.user_id = None THEN "HTTPException"
                 ELSE ""
      found   == {r \in users : decoded.user_id = Some(r.id)}
  IN  CASE cred.kind = "missing" -> [status |-> missing_status]
        [] raised = "" ->
             IF found = {} THEN [status |-> 401]
             ELSE [status |-> 200, user |-> CHOOSE r \in found : TRUE]
        [] raised = "ExpiredSignatureError" -> [status |-> 401]
        [] "JWTError" \notin JwtExports -> [status |-> 500]
        [] OTHER -> [status |-> 401]

\* get_me: the profile of the user get_current_user returns.
GetMe(p, cred, missing_status) ==
  /\ response = NoResponse
  /\ requests[p] = Idle
  /\ LET current == GetCurrentUser(cred, missing_status)
     IN  IF current.status = 200
           THEN Finish(p, [proc |-> p, op |-> "get_me", credentials |-> cred,
                           status |-> 200,
                           user |-> [id |-> current.user.id,
                                     email |-> current.user.email,
                                     full_name |-> current.user.full_name]])
           ELSE Finish(p, [proc |-> p, op |-> "get_me", credentials |-> cred,
                           status |-> current.status])
  /\ UNCHANGED <<store, faults, calc>>

\* The register requests between their select and their insert.
RegistersInFlight ==
  Cardinality({p \in DOMAIN requests : requests[p].op = "register"})

\* register without the look at existing.data.
RegisterSelectUnchecked(p, body) ==
  /\ response = NoResponse
  /\ requests[p] = Idle
  /\ next_user_id + RegistersInFlight <= MaxUsers
  /\ Continue(p, [op |-> "register", pc |-> "insert", body |-> body])
  /\ UNCHANGED <<store, faults, calc>>

\* register: the select of the rows with the email, and "Email already
\* registered" when there is one.
RegisterSelect(p, body) ==
  /\ response = NoResponse
  /\ requests[p] = Idle
  /\ next_user_id + RegistersInFlight <= MaxUsers
  /\ IF {r \in users : r.email = body.email} # {}
       THEN Finish(p, [proc |-> p, op |-> "register", email |-> body.email,
                       status |-> 400])
       ELSE Continue(p, [op |-> "register", pc |-> "insert", body |-> body])
  /\ UNCHANGED <<store, faults, calc>>

\* register: the insert of new_user, "Failed to create user" when it returns
\* no rows, and the token for the new row.
RegisterInsert(p, out) ==
  /\ response = NoResponse
  /\ Inject(out)
  /\ requests[p].op = "register"
  /\ requests[p].pc = "insert"
  /\ IF out = "ok"
       THEN LET row == NewUser(UserIds[next_user_id], requests[p].body)
            IN  /\ users' = users \cup {row}
                /\ next_user_id' = next_user_id + 1
                /\ Finish(p, [proc |-> p, op |-> "register",
                              email |-> row.email, status |-> 200,
                              access_token |-> AccessToken(row.id),
                              user |-> [id |-> row.id, email |-> row.email,
                                        full_name |-> row.full_name]])
       ELSE /\ Finish(p, [proc |-> p, op |-> "register",
                          email |-> requests[p].body.email, status |-> 500])
            /\ UNCHANGED auth
  /\ UNCHANGED <<catalog, customers, quotations, quotation_items, reminders,
                 next_quotation_id, next_reminder_id, calc>>

\* login: data[0] of the rows with the email (any of them, when there are
\* several), the password check, and the token.
Login(p, credentials) ==
  /\ response = NoResponse
  /\ requests[p] = Idle
  /\ LET found == {r \in users : r.email = credentials.email}
     IN  IF found = {}
           THEN Finish(p, [proc |-> p, op |-> "login",
                           email |-> credentials.email, status |-> 401])
           ELSE \E user \in found :
                  IF user.password_hash = <<"bcrypt", credentials.password>>
                    THEN Finish(p, [proc |-> p, op |-> "login",
                                    email |-> credentials.email,
                                    status |-> 200,
                                    access_token |-> AccessToken(user.id),
                                    user |-> [id |-> user.id,
                                              email |-> user.email,
                                              full_name |-> user.full_name]])
                    ELSE Finish(p, [proc |-> p, op |-> "login",
                                    email |-> credentials.email,
                                    status |-> 401])
  /\ UNCHANGED <<store, faults, calc>>

\* ------------------------------------------------------------------------
\* The server: requests interleaved at the store calls
\* ------------------------------------------------------------------------

\* The store outlives the server process; the server starts on a store that
\* holds two registered tenants, each with one customer, and no quotation.
Init ==
  /\ users = TenantRows
  /\ next_user_id = 1
  /\ products = ProductRows
  /\ next_product_id = 1
  /\ customers = CustomerRows
  /\ quotations = {}
  /\ quotation_items = << >>
  /\ reminders = {}
  /\ next_quotation_id = 1
  /\ next_reminder_id = 1
  /\ requests = [p \in Procs |-> Idle]
  /\ response = NoResponse
  /\ faults = 0
  /\ calc_in = None
  /\ calc_out = None

\* The bodies of the requests that create and replace quotations from an
\* empty quotations table: the ones without a discount.
OverlapCreates == {b \in QuotationCreates : b.discount_amount = FlFromInt(0)}

Next ==
  \E p \in Procs :
    \/ \E u \in Users, body \in OverlapCreates, number \in QuotationNumbers,
          out \in WriteOutcomes : CqInsertHeader(p, u, body, number, out)
    \/ \E out \in WriteOutcomes : CqInsertItems(p, out)
    \/ CqSelectHeader(p)
    \/ CqSelectItems(p)
    \/ \E u \in Users, id \in QuotationIds, body \in OverlapCreates,
          out \in WriteOutcomes : UqUpdateHeader(p, u, id, body, out)
    \/ \E out \in WriteOutcomes : UqDeleteItems(p, out)
    \/ \E out \in WriteOutcomes : UqInsertItems(p, out)
    \/ UqSelectHeader(p)
    \/ UqSelectItems(p)
    \/ \E u \in Users, id \in QuotationIds : GqSelectHeader(p, u, id)
    \/ GqSelectItems(p)
    \/ SendResponse

Spec == Init /\ [][Next]_vars

\* ------------------------------------------------------------------------
\* The server as server.py starts it: one uvicorn process, whose handlers
\* are coroutines that never await, so that requests are served one at a time
\* ------------------------------------------------------------------------

SeqProcs == {"p1"}

SeqNext ==
  \E p \in SeqProcs :
    \/ \E u \in Users, body \in OverlapCreates, number \in QuotationNumbers,
          out \in WriteOutcomes : CqInsertHeader(p, u, body, number, out)
    \/ \E out \in WriteOutcomes : CqInsertItems(p, out)
    \/ CqSelectHeader(p)
    \/ CqSelectItems(p)
    \/ \E u \in Users, id \in QuotationIds, body \in OverlapCreates,
          out \in WriteOutcomes : UqUpdateHeader(p, u, id, body, out)
    \/ \E out \in WriteOutcomes : UqDeleteItems(p, out)
    \/ \E out \in WriteOutcomes : UqInsertItems(p, out)
    \/ UqSelectHeader(p)
    \/ UqSelectItems(p)
    \/ \E u \in Users, id \in QuotationIds : GqSelectHeader(p, u, id)
    \/ GqSelectItems(p)
    \/ \E u \in Users, body \in ReminderCreates, out \in WriteOutcomes :
          CreateReminder(p, u, body, out)
    \/ \E u \in Users : GetReminders(p, u)
    \/ \E u \in Users, id \in CustomerIds : GetCustomer(p, u, id)
    \/ SendResponse

SeqSpec == Init /\ [][SeqNext]_vars

\* Quotations created and read, one request at a time.
CreateNext ==
  \E p \in SeqProcs :
    \/ \E u \in Users, body \in OverlapCreates, number \in QuotationNumbers,
          out \in WriteOutcomes : CqInsertHeader(p, u, body, number, out)
    \/ \E out \in WriteOutcomes : CqInsertItems(p, out)
    \/ CqSelectHeader(p)
    \/ CqSelectItems(p)
    \/ \E u \in Users, id \in QuotationIds : GqSelectHeader(p, u, id)
    \/ GqSelectItems(p)
    \/ SendResponse

CreateSpec == Init /\ [][CreateNext]_vars

\* ------------------------------------------------------------------------
\* The server on a store that holds quotations
\* ------------------------------------------------------------------------

\* The quotations of the store: one of each tenant, as create_quotation
\* leaves them (totals 180 and 60).
StoredBodies ==
  <<[customer_id |-> "c1", items |-> <<ItemA, ItemB>>,
     discount_amount |-> FlFromInt(0), tax_rate |-> 20, notes |-> None],
    [customer_id |-> "c2", items |-> <<ItemA>>,
     discount_amount |-> FlFromInt(50), tax_rate |-> 20, notes |-> None]>>

StoredIds == DOMAIN StoredBodies

\* The owners of the stored quotations.
StoredOwners == <<"u1", "u2">>

StoredQuotations ==
  {NewQuotation(1, StoredOwners[1], StoredBodies[1], "Q-20240101120000-1000"),
   NewQuotation(2, StoredOwners[2], StoredBodies[2], "Q-20240102120000-2000")}

StoredInit ==
  /\ users = TenantRows
  /\ next_user_id = 1
  /\ products = ProductRows
  /\ next_product_id = 1
  /\ customers = CustomerRows
  /\ quotations = StoredQuotations
  /\ quotation_items =
       ItemRows(1, StoredBodies[1].items) \o ItemRows(2, StoredBodies[2].items)
  /\ reminders = {}
  /\ next_quotation_id = Len(StoredBodies) + 1
  /\ next_reminder_id = 1
  /\ requests = [p \in Procs |-> Idle]
  /\ response = NoResponse
  /\ faults = 0
  /\ calc_in = None
  /\ calc_out = None

\* Two update_quotation requests of tenant u1 on its quotation, interleaved
\* at the store calls: the three item lists, for the same customer.
RaceBodies ==
  {b \in QuotationCreates :
     b.customer_id = "c1" /\ b.discount_amount = FlFromInt(0)}

RaceNext ==
  \E p \in Procs :
    \/ \E body \in RaceBodies, out \in WriteOutcomes :
          UqUpdateHeader(p, "u1", 1, body, out)
    \/ \E out \in WriteOutcomes : UqDeleteItems(p, out)
    \/ \E out \in WriteOutcomes : UqInsertItems(p, out)
    \/ UqSelectHeader(p)
    \/ UqSelectItems(p)
    \/ SendResponse

RaceSpec == StoredInit /\ [][RaceNext]_vars

\* Quotations replaced and read, one request at a time.
UpdateNext ==
  \E p \in SeqProcs :
    \/ \E u \in Users, id \in StoredIds, body \in QuotationCreates,
          out \in WriteOutcomes : UqUpdateHeader(p, u, id, body, out)
    \/ \E out \in WriteOutcomes : UqDeleteItems(p, out)
    \/ \E out \in WriteOutcomes : UqInsertItems(p, out)
    \/ UqSelectHeader(p)
    \/ UqSelectItems(p)
    \/ \E u \in Users, id \in StoredIds : GqSelectHeader(p, u, id)
    \/ GqSelectItems(p)
    \/ SendResponse

UpdateSpec == StoredInit /\ [][UpdateNext]_vars

\* Payments recorded and quotations read, one request at a time.
PaymentNext ==
  \E p \in SeqProcs :
    \/ \E u \in Users, id \in StoredIds, payment \in PaymentUpdates,
          out \in WriteOutcomes : UpdatePaymentStatus(p, u, id, payment, out)
    \/ \E u \in Users, id \in StoredIds : GqSelectHeader(p, u, id)
    \/ GqSelectItems(p)
    \/ SendResponse

PaymentSpec == StoredInit /\ [][PaymentNext]_vars

\* Products edited and quotations read, one request at a time.
ProductNext ==
  \E p \in SeqProcs :
    \/ \E u \in Users, product \in ProductCreates, out \in WriteOutcomes :
          CreateProduct(p, u, product, out)
    \/ \E u \in Users, id \in ProductIds,
          product \in ProductCreates, out \in WriteOutcomes :
          UpdateProduct(p, u, id, product, out)
    \/ \E u \in Users, id \in ProductIds, out \in WriteOutcomes :
          DeleteProduct(p, u, id, out)
    \/ \E u \in Users : GetProducts(p, u)
    \/ \E u \in Users, id \in StoredIds : GqSelectHeader(p, u, id)
    \/ GqSelectItems(p)
    \/ SendResponse

ProductSpec == StoredInit /\ [][ProductNext]_vars

\* ------------------------------------------------------------------------
\* The document renderer on a stored quotation
\* ------------------------------------------------------------------------

\* Quotation 1 of tenant u1 with two item rows: one whose name and
\* specifications have the lengths tried, and one with short texts; the
\* notes have the lengths tried.
PdfInit ==
  \E n \in LengthsAround(NameChars),
     specifications \in OptionalTexts(SpecificationsChars),
     notes \in OptionalTexts(NotesChars) :
    /\ users = TenantRows
    /\ next_user_id = 1
    /\ products = ProductRows
    /\ next_product_id = 1
    /\ customers = CustomerRows
    /\ quotations =
         {[NewQuotation(1, "u1", StoredBodies[1], "Q-20240101120000-1000")
             EXCEPT !.notes = notes]}
    /\ quotation_items =
         ItemRows(1, <<[ItemA EXCEPT !.product_name = Text(n),
                                     !.specifications = specifications],
                       [ItemB EXCEPT !.product_name = Text(6),
                                     !.specifications = Some(Text(5))]>>)
    /\ reminders = {}
    /\ next_quotation_id = 2
    /\ next_reminder_id = 1
    /\ requests = [p \in Procs |-> Idle]
    /\ response = NoResponse
    /\ faults = 0
    /\ calc_in = None
    /\ calc_out = None

PdfNext ==
  \E p \in SeqProcs :
    \/ \E u \in Users : PdfSelectHeader(p, u, 1)
    \/ PdfDraw(p)
    \/ SendResponse

PdfSpec == PdfInit /\ [][PdfNext]_vars

\* ------------------------------------------------------------------------
\* Settings of the two tenants
\* ------------------------------------------------------------------------

\* Settings updated and profiles read, one request at a time.
SettingsNext ==
  \E p \in SeqProcs :
    \/ \E u \in Users, settings \in UserSettingsUpdates,
          out \in WriteOutcomes : UpdateSettings(p, u, settings, out)
    \/ \E u \in Users : GetMe(p, AccessToken(u), 401)
    \/ SendResponse

SettingsSpec == StoredInit /\ [][SettingsNext]_vars

\* ------------------------------------------------------------------------
\* Updates and deletes of two tenants, interleaved at the store calls
\* ------------------------------------------------------------------------

\* One reminder per tenant, each on the tenant's own quotation.
ReminderRows ==
  {[id |-> i, user_id |-> StoredOwners[i], quotation_id |-> i,
    reminder_date |-> "2024-03-01", message |-> "ara", sent |-> FALSE] :
     i \in StoredIds}

\* The store with a customer, a product, a quotation and a reminder of each
\* tenant.
IsolationInit ==
  /\ users = TenantRows
  /\ next_user_id = 1
  /\ products = ProductRows
  /\ next_product_id = 1
  /\ customers = CustomerRows
  /\ quotations = StoredQuotations
  /\ quotation_items =
       ItemRows(1, StoredBodies[1].items) \o ItemRows(2, StoredBodies[2].items)
  /\ reminders = ReminderRows
  /\ next_quotation_id = Len(StoredBodies) + 1
  /\ next_reminder_id = Len(StoredBodies) + 1
  /\ requests = [p \in Procs |-> Idle]
  /\ response = NoResponse
  /\ faults = 0
  /\ calc_in = None
  /\ calc_out = None

\* A header row is as stored when no update_quotation with another customer
\* or discount and no payment update has been applied to it.
AsStored(q) ==
  /\ q.id \in StoredIds
  /\ q.customer_id = StoredBodies[q.id].customer_id
  /\ q.discount_amount = StoredBodies[q.id].discount_amount
  /\ q.payment_status = "unpaid"

\* The rows of the initial store that are no longer in it as they were.
ChangedRows ==
  Cardinality(CustomerRows \ customers) + Cardinality(ProductRows \ products)
    + Cardinality({i \in StoredIds :
                     ~ \E q \in quotations : q.id = i /\ AsStored(q)})
    + Cardinality(ReminderRows \ reminders)

\* The payloads of the update requests: one per customer for
\* update_quotation, one for update_product, one for update_payment_status.
IsolationBodies ==
  {b \in QuotationCreates :
     b.items = <<ItemA>> /\ b.discount_amount = FlFromInt(50)}

IsolationProducts ==
  {x \in ProductCreates :
     x.name = "Widget Pro" /\ x.price = FlFromInt(120)
       /\ x.specifications = None}

IsolationPayments ==
  {x \in PaymentUpdates :
     x.payment_status = "paid" /\ x.payment_date = None
       /\ x.payment_amount = None /\ x.payment_notes = None}

\* A request of u for the row id of a table may run when it matches no row
\* (it changes nothing), when the row it matches has been changed before
\* (it is not among the rows given as stored), or while fewer than
\* MaxChanged rows of the initial store have been changed.
Allowed(table, stored, id, u) ==
  LET mine == {r \in table : r.id = id /\ r.user_id = u}
  IN  \/ mine \cap stored = {}
      \/ ChangedRows < MaxChanged

\* Every tenant sends update and delete requests for every row, its own or
\* not, with the store calls applied.  The single-call requests are served
\* one after another in one slot; the store calls of an update_quotation
\* request in the other slot fall between them.
IsolationNext ==
  \/ \E p \in SeqProcs, u \in Users :
       \/ \E id \in CustomerIds, customer \in CustomerUpdates :
            /\ Allowed(customers, CustomerRows, id, u)
            /\ UpdateCustomer(p, u, id, customer, "ok")
       \/ \E id \in CustomerIds :
            /\ Allowed(customers, CustomerRows, id, u)
            /\ DeleteCustomer(p, u, id, "ok")
       \/ \E id \in ProductIds, product \in IsolationProducts :
            /\ Allowed(products, ProductRows, id, u)
            /\ UpdateProduct(p, u, id, product, "ok")
       \/ \E id \in ProductIds :
            /\ Allowed(products, ProductRows, id, u)
            /\ DeleteProduct(p, u, id, "ok")
       \/ \E id \in StoredIds :
            /\ Allowed(quotations, {q \in quotations : AsStored(q)}, id, u)
            /\ DeleteQuotation(p, u, id, "ok")
       \/ \E id \in StoredIds, payment \in IsolationPayments :
            /\ Allowed(quotations, {q \in quotations : AsStored(q)}, id, u)
            /\ UpdatePaymentStatus(p, u, id, payment, "ok")
       \/ \E id \in StoredIds :
            /\ Allowed(reminders, ReminderRows, id, u)
            /\ SendReminder(p, u, id, "ok")
       \/ \E id \in StoredIds :
            /\ Allowed(reminders, ReminderRows, id, u)
            /\ DeleteReminder(p, u, id, "ok")
  \/ \E p \in Procs \ SeqProcs :
       \/ \E u \in Users, id \in StoredIds, body \in IsolationBodies :
            /\ Allowed(quotations, {q \in quotations : AsStored(q)}, id, u)
            /\ UqUpdateHeader(p, u, id, body, "ok")
       \/ UqDeleteItems(p, "ok")
       \/ UqInsertItems(p, "ok")
       \/ UqSelectHeader(p)
       \/ UqSelectItems(p)
  \/ SendResponse

IsolationSpec == IsolationInit /\ [][IsolationNext]_vars

\* ------------------------------------------------------------------------
\* The life of a quotation: created, replaced, paid, deleted
\* ------------------------------------------------------------------------

\* The payloads of update_payment_status in the life of a quotation.
LifecyclePayments ==
  {x \in PaymentUpdates :
     /\ x.payment_status \in {"paid", "partial"}
     /\ x.payment_date = None
     /\ x.payment_amount = Some(FlFromInt(100))
     /\ x.payment_notes = Some("havale")}

\* Every operation that writes table quotations, and get_quotation, one
\* request at a time; the store calls of update_quotation can fail.
LifecycleNext ==
  \E p \in SeqProcs :
    \/ \E u \in Users, body \in IsolationBodies, number \in QuotationNumbers :
          CqInsertHeader(p, u, body, number, "ok")
    \/ CqInsertItems(p, "ok")
    \/ CqSelectHeader(p)
    \/ CqSelectItems(p)
    \/ \E u \in Users, id \in QuotationIds, body \in RaceBodies,
          out \in WriteOutcomes : UqUpdateHeader(p, u, id, body, out)
    \/ \E out \in WriteOutcomes : UqDeleteItems(p, out)
    \/ \E out \in WriteOutcomes : UqInsertItems(p, out)
    \/ UqSelectHeader(p)
    \/ UqSelectItems(p)
    \/ \E u \in Users, id \in QuotationIds, payment \in LifecyclePayments :
          UpdatePaymentStatus(p, u, id, payment, "ok")
    \/ \E u \in Users, id \in QuotationIds : DeleteQuotation(p, u, id, "ok")
    \/ \E u \in Users, id \in QuotationIds : GqSelectHeader(p, u, id)
    \/ GqSelectItems(p)
    \/ SendResponse

LifecycleSpec == Init /\ [][LifecycleNext]_vars

\* ------------------------------------------------------------------------
\* The financial calculator on its own
\* ------------------------------------------------------------------------

\* Item payloads by their total.
ItemOfTotal(n) ==
  [product_name |-> "Widget", specifications |-> None, quantity |-> 1,
   unit |-> "adet", unit_price |-> FlFromInt(n), total |-> FlFromInt(n)]

\* The calculator's inputs: the item lists of at most MaxItems items with
\* totals 100 and 50, a discount and a tax rate.
CalcItemLists ==
  UNION {[1..n -> {ItemOfTotal(100), ItemOfTotal(50)}] : n \in 0..MaxItems}

CalcInputs ==
  [items : CalcItemLists, discount_amount : {FlFromInt(0), FlFromInt(50)},
   tax_rate : {0, 14, 20}]

CalcInit ==
  /\ users = TenantRows
  /\ next_user_id = 1
  /\ products = ProductRows
  /\ next_product_id = 1
  /\ customers = CustomerRows
  /\ quotations = {}
  /\ quotation_items = << >>
  /\ reminders = {}
  /\ next_quotation_id = 1
  /\ next_reminder_id = 1
  /\ requests = [p \in Procs |-> Idle]
  /\ response = NoResponse
  /\ faults = 0
  /\ calc_in \in {Some(i) : i \in CalcInputs}
  /\ calc_out = None

\* The totals create_quotation and update_quotation compute for a request.
Calculate ==
  /\ calc_out = None
  /\ calc_out' = Some(ComputeTotals(calc_in[1].items,
                                    calc_in[1].discount_amount,
                                    calc_in[1].tax_rate))
  /\ UNCHANGED <<store, requests, response, faults, calc_in>>

\* The next request.
NextInput ==
  /\ calc_out # None
  /\ calc_in' \in {Some(i) : i \in CalcInputs}
  /\ calc_out' = None
  /\ UNCHANGED <<store, requests, response, faults>>

CalcNext == Calculate \/ NextInput

CalcSpec == CalcInit /\ [][CalcNext]_vars

\* ------------------------------------------------------------------------
\* Registration and authentication on an empty users table
\* ------------------------------------------------------------------------

AuthInit ==
  /\ users = {}
  /\ next_user_id = 1
  /\ products = {}
  /\ next_product_id = 1
  /\ customers = {}
  /\ quotations = {}
  /\ quotation_items = << >>
  /\ reminders = {}
  /\ next_quotation_id = 1
  /\ next_reminder_id = 1
  /\ requests = [p \in Procs |-> Idle]
  /\ response = NoResponse
  /\ faults = 0
  /\ calc_in = None
  /\ calc_out = None

AuthNext ==
  \E p \in Procs :
    \/ \E body \in UserCreates : RegisterSelect(p, body)
    \/ \E out \in WriteOutcomes : RegisterInsert(p, out)
    \/ \E credentials \in UserLogins : Login(p, credentials)
    \/ \E cred \in Credentials, missing_status \in BearerMissingStatus :
          GetMe(p, cred, missing_status)
    \/ SendResponse

AuthSpec == AuthInit /\ [][AuthNext]_vars

\* ------------------------------------------------------------------------
\* Properties
\* ------------------------------------------------------------------------

\* The sum of the totals of item rows, as a natural number.
RECURSIVE RowTotalSum(_)
RowTotalSum(rows) ==
  IF rows = << >> THEN 0
  ELSE IntValue(Head(rows).item.total) + RowTotalSum(Tail(rows))

\* A header's amounts follow from the item rows: the subtotal is their sum,
\* and tax_amount and total are the exact values of the formulas.
HeaderMatches(q, rows) ==
  LET taxable == IntValue(q.subtotal) - IntValue(q.discount_amount)
  IN  /\ q.subtotal = FlFromInt(RowTotalSum(rows))
      /\ FlIsRatio(q.tax_amount, taxable * q.tax_rate, 100)
      /\ FlIsRatio(q.total, taxable * (100 + q.tax_rate), 100)

\* C1: in every reachable state, the states between the writes of a handler
\* and the states of overlapping requests included, every persisted
\* quotation row has subtotal = the sum of the totals of its persisted item
\* rows, tax_amount = (subtotal - discount_amount) * tax_rate / 100 and
\* total = subtotal - discount_amount + tax_amount.
C1_TotalsAlways ==
  \A q \in quotations : HeaderMatches(q, ItemsOf(quotation_items, q.id))

\* C2: no response to a tenant holds a row of another tenant: the customer
\* embedded in the responses of create_quotation, update_quotation and
\* get_quotation is the caller's, and so are the quotation and the customer
\* embedded in the reminders get_reminders returns.
C2_NoForeignData ==
  /\ (response.status = 200
        /\ response.op \in {"create_quotation", "update_quotation",
                            "get_quotation"})
       => (response.customer = None
             \/ response.customer[1].user_id = response.user)
  /\ (response.status = 200 /\ response.op = "get_reminders")
       => \A x \in response.reminders :
            /\ \A q \in quotations :
                 q.id = x.reminder.quotation_id => q.user_id = response.user
            /\ x.quotations = None
                 \/ x.quotations[1].customers = None
                 \/ x.quotations[1].customers[1].user_id = response.user

\* C3: when requests are served one at a time and the store applies its
\* writes, an update_quotation that completes returns exactly the item rows
\* of its new item list and leaves exactly these rows stored for the
\* quotation; a get_quotation returns the rows stored for the quotation;
\* and the rows stored for a quotation change only in the item writes of a
\* create_quotation or update_quotation of that quotation.
C3_UpdateReplacesItems ==
  [][\A p \in SeqProcs :
       /\ (requests[p].op = "update_quotation" /\ response'.status = 200
             /\ faults = 0)
            => /\ response'.items =
                    ItemRows(requests[p].quotation_id, requests[p].body.items)
               /\ ItemsOf(quotation_items', requests[p].quotation_id) =
                    response'.items
       /\ (requests[p].op = "get_quotation" /\ response'.status = 200)
            => response'.items =
                 ItemsOf(quotation_items, requests[p].quotation_id)
       /\ \A id \in StoredIds :
            ItemsOf(quotation_items', id) # ItemsOf(quotation_items, id)
              => /\ requests[p].op \in {"create_quotation", "update_quotation"}
                 /\ requests[p].quotation_id = id
                 /\ requests[p].pc \in {"delete_items", "insert_items"}
    ]_vars

\* C3, its case: an update_quotation with a one-item list has completed for
\* the quotation that was stored with two items; its response holds that
\* one row, and so does the store.
C3_Witness ==
  /\ response.status = 200
  /\ response.op = "update_quotation"
  /\ faults = 0
  /\ response.quotation.id = 1
  /\ response.items = ItemRows(response.quotation.id, <<ItemA>>)
  /\ response.items = ItemsOf(quotation_items, response.quotation.id)

\* C4: once two update_quotation requests on the same quotation have both
\* completed (and every write was applied), the header amounts and the item
\* rows are those of one single request: there is a body whose totals the
\* header holds and whose item list the stored rows are.
C4_LastWriteWins ==
  ((\A p \in Procs : requests[p] = Idle) /\ faults = 0)
    => \A q \in quotations :
         \E body \in QuotationCreates :
           /\ q = UpdatedQuotation(q, body)
           /\ ItemsOf(quotation_items, q.id) = ItemRows(q.id, body.items)

\* C5: for every item list, discount d and tax rate r the calculator
\* returns subtotal = the sum of the items' total,
\* tax_amount = (subtotal - d) * r / 100 and
\* total = (subtotal - d) + (subtotal - d) * r / 100.
C5_CalculatorFormulas ==
  calc_out # None =>
    LET items   == calc_in[1].items
        rows    == [i \in 1..Len(items) |-> [item |-> items[i]]]
        taxable == RowTotalSum(rows) - IntValue(calc_in[1].discount_amount)
        r       == calc_in[1].tax_rate
    IN  /\ calc_out[1].subtotal = FlFromInt(RowTotalSum(rows))
        /\ FlIsRatio(calc_out[1].tax_amount, taxable * r, 100)
        /\ FlIsRatio(calc_out[1].total, taxable * (100 + r), 100)

\* C6: a register request that arrives when a user row with its email
\* exists ends at once with the error "Email already registered" (status
\* 400), and the users table is left as it was.
C6_DuplicateEmailRejected ==
  [][\A p \in Procs, body \in UserCreates :
       (/\ requests[p] = Idle
        /\ \/ /\ requests'[p].op = "register"
              /\ requests'[p].body = body
           \/ /\ response' # NoResponse
              /\ response'.proc = p
              /\ response'.op = "register"
              /\ response'.email = body.email
        /\ \E r \in users : r.email = body.email)
         => /\ requests'[p] = Idle
            /\ response'.op = "register"
            /\ response'.status = 400
            /\ users' = users
    ]_vars

\* C6, its case: a register request has been answered with status 400 while
\* a user row holds its email.
C6_Witness ==
  /\ response.status = 400
  /\ response.op = "register"
  /\ \E r \in users : r.email = response.email

\* C7: a request guarded by get_current_user is answered with 401 when its
\* bearer token is missing, expired, malformed, badly signed, without
\* user_id, or names a user that is not in the users table; it is answered
\* with the profile of the token's user otherwise.
C7_BadCredentials401 ==
  (response # NoResponse /\ response.op = "get_me") =>
    LET cred == response.credentials
    IN  IF /\ cred.kind = "signed"
           /\ ~cred.expired
           /\ \E r \in users : cred.user_id = Some(r.id)
          THEN /\ response.status = 200
               /\ cred.user_id = Some(response.user.id)
          ELSE response.status = 401

\* C8: a create_quotation request with an empty item list persists no
\* quotation header.
C8_EmptyItemsRejected ==
  \A p \in Procs :
    (requests[p].op = "create_quotation" /\ requests[p].body.items = << >>)
      => \A q \in quotations : q.id # requests[p].quotation_id

\* C9: when the insert or the delete of item rows in create_quotation or
\* update_quotation returns no rows or raises, the request ends with status
\* 500.
C9_FailedItemWrite500 ==
  [][\A p \in Procs :
       (/\ requests[p].op \in {"create_quotation", "update_quotation"}
        /\ requests[p].pc \in {"insert_items", "delete_items"}
        /\ requests'[p] # requests[p]
        /\ faults' = faults + 1)
         => (requests'[p] = Idle /\ response'.status = 500)
    ]_vars

\* C10: update_payment_status leaves the item rows and every other table
\* as they were and every other quotation row as it was; on a quotation of
\* the caller, whatever its payment fields hold, a request whose write is
\* applied succeeds, sets payment_status and exactly those of payment_date,
\* payment_amount and payment_notes that the request sets, and leaves
\* subtotal, discount_amount, tax_rate, tax_amount, total, status,
\* quotation_number, customer_id and notes as they were; a request that
\* does not succeed changes nothing.
C10_PaymentFrame ==
  [][(response' # NoResponse /\ response'.op = "update_payment_status") =>
       LET id     == response'.quotation_id
           pay    == response'.payment
           before == {q \in quotations :
                        q.id = id /\ q.user_id = response'.user}
           Kept(old, set) == IF set = None THEN old ELSE set
       IN  /\ quotation_items' = quotation_items
           /\ customers' = customers
           /\ reminders' = reminders
           /\ users' = users
           /\ quotations \ before \subseteq quotations'
           /\ Cardinality(quotations') = Cardinality(quotations)
           /\ (before # {} /\ faults' = faults) => response'.status = 200
           /\ response'.status # 200 => quotations' = quotations
           /\ response'.status = 200 =>
                \A q \in before :
                  /\ response'.quotation \in quotations'
                  /\ response'.quotation =
                       [id |-> q.id, user_id |-> q.user_id,
                        customer_id |-> q.customer_id,
                        quotation_number |-> q.quotation_number,
                        subtotal |-> q.subtotal,
                        discount_amount |-> q.discount_amount,
                        tax_rate |-> q.tax_rate,
                        tax_amount |-> q.tax_amount, total |-> q.total,
                        notes |-> q.notes, status |-> q.status,
                        payment_status |-> pay.payment_status,
                        payment_date |->
                          Kept(q.payment_date, pay.payment_date),
                        payment_amount |->
                          Kept(q.payment_amount, pay.payment_amount),
                        payment_notes |->
                          Kept(q.payment_notes, pay.payment_notes)]
    ]_vars

\* C10, its case: a payment update that sets no date has succeeded on the
\* two-item quotation, which holds the date of an earlier payment, with an
\* amount that is not the quotation's total.
C10_Witness ==
  /\ response.status = 200
  /\ response.op = "update_payment_status"
  /\ response.payment.payment_date = None
  /\ response.quotation.payment_date # None
  /\ response.payment.payment_amount # None
  /\ response.quotation.payment_amount # Some(response.quotation.total)
  /\ Len(ItemsOf(quotation_items, response.quotation_id)) = 2

\* What get_quotation returns to the owner of each stored quotation: the
\* header, its customer and its item rows.
ReadBack(qs, rows, cs) ==
  {[quotation |-> q, items |-> ItemsOf(rows, q.id),
    customer |-> {c \in cs : c.id = q.customer_id}] : q \in qs}

\* C11: update_product and delete_product leave every quotation header and
\* every quotation_items row unchanged, so that every quotation reads back
\* after a product edit as it did before it; and a get_quotation returns the
\* rows that are stored.
C11_ProductEditsKeepItems ==
  [][/\ (response' # NoResponse
           /\ response'.op \in {"update_product", "delete_product"})
          => /\ quotations' = quotations
             /\ quotation_items' = quotation_items
             /\ ReadBack(quotations', quotation_items', customers') =
                  ReadBack(quotations, quotation_items, customers)
     /\ \A p \in SeqProcs :
          (requests[p].op = "get_quotation" /\ response'.status = 200)
            => response'.items =
                 ItemsOf(quotation_items, requests[p].quotation_id)
    ]_vars

\* C11, its case: the product the stored items were copied from has been
\* renamed and repriced, and the item rows of quotation 1 still hold the
\* name and the price they were created with.
C11_Witness ==
  /\ response.status = 200
  /\ response.op = "update_product"
  /\ response.product.name = "Widget Pro"
  /\ response.product.price = FlFromInt(120)
  /\ \A r \in products : r.name # "Widget"
  /\ ItemsOf(quotation_items, 1) = ItemRows(1, <<ItemA, ItemB>>)
  /\ ItemA.product_name = "Widget"

\* C12: in every reachable state the payment_status of every persisted
\* quotation is 'unpaid' or 'paid'.
C12_PaymentStatusDomain ==
  \A q \in quotations : q.payment_status \in {"unpaid", "paid"}

\* d is the first n characters of s, and all of s when s has at most n.
FirstChars(d, s, n) ==
  /\ Len(d) = MinOf(Len(s), n)
  /\ \A i \in 1..Len(d) : d[i] = s[i]
  /\ Len(s) <= n => d = s

\* C13: in the document generate_quotation_pdf returns, the product name
\* drawn for each item row is the first 40 characters of product_name, the
\* specifications line (drawn, indented by two spaces, when the column is
\* not empty) holds the first 60 characters of specifications, the notes
\* block (drawn when notes is not empty) holds the first 100 characters of
\* notes; a text at or under its bound is drawn whole.
C13_PdfTruncation ==
  (response # NoResponse /\ response.op = "generate_quotation_pdf"
     /\ response.status = 200) =>
    LET rows == ItemsOf(quotation_items, response.quotation_id)
        q    == CHOOSE q \in quotations : q.id = response.quotation_id
    IN  /\ Len(response.items) = Len(rows)
        /\ \A i \in 1..Len(rows) :
             LET item  == rows[i].item
                 drawn == response.items[i]
             IN  /\ FirstChars(drawn.product_name, item.product_name, 40)
                 /\ (drawn.specifications # None) <=>
                      (item.specifications # None
                         /\ Len(item.specifications[1]) > 0)
                 /\ drawn.specifications # None =>
                      LET line == drawn.specifications[1]
                      IN  /\ Len(line) >= 2
                          /\ SubSeq(line, 1, 2) = <<" ", " ">>
                          /\ FirstChars(SubSeq(line, 3, Len(line)),
                                        item.specifications[1], 60)
        /\ (response.notes # None) <=>
             (q.notes # None /\ Len(q.notes[1]) > 0)
        /\ response.notes # None =>
             FirstChars(response.notes[1], q.notes[1], 100)

\* C13, its case: a document was drawn for a quotation whose first item has
\* a name of 41 characters and specifications of 61, whose second item has
\* short texts, and whose notes have 101 characters.
C13_Witness ==
  /\ response.status = 200
  /\ response.op = "generate_quotation_pdf"
  /\ Len(quotation_items[1].item.product_name) = 41
  /\ quotation_items[1].item.specifications # None
  /\ Len(quotation_items[1].item.specifications[1]) = 61
  /\ \E q \in quotations : q.notes # None /\ Len(q.notes[1]) = 101
  /\ Len(response.items[1].product_name) = 40
  /\ Len(response.items[1].specifications[1]) = 62
  /\ Len(response.notes[1]) = 100
  /\ response.items[2].product_name = quotation_items[2].item.product_name

\* C14: update_settings with a payload in which no field is set is answered
\* with the validation error 400 and leaves users unchanged; with a payload
\* that sets fields, and a write that is applied, it is answered 200 and the
\* caller's row holds the values of exactly the fields set, every other
\* field (id, email, password hash, subscription) and every other row being
\* as before; a request that does not succeed changes nothing.
C14_SettingsUpdate ==
  [][(response' # NoResponse /\ response'.op = "update_settings") =>
       LET set == response'.settings
           u   == response'.user
       IN  /\ (\A f \in DOMAIN set : set[f] = None)
                => (response'.status = 400 /\ users' = users)
           /\ response'.status # 200 => users' = users
           /\ ((\E f \in DOMAIN set : set[f] # None) /\ faults' = faults)
                => response'.status = 200
           /\ response'.status = 200 =>
                /\ {r \in users' : r.id # u} = {r \in users : r.id # u}
                /\ \A old \in {r \in users : r.id = u} :
                     \E new \in users' :
                       /\ Cardinality(users') = Cardinality(users)
                       /\ new.id = u
                       /\ new.email = old.email
                       /\ new.password_hash = old.password_hash
                       /\ new.subscription_plan = old.subscription_plan
                       /\ new.subscription_status = old.subscription_status
                       /\ new.full_name =
                            IF set.full_name = None THEN old.full_name
                            ELSE set.full_name[1]
                       /\ new.company =
                            IF set.company = None THEN old.company
                            ELSE set.company
                       /\ new.default_tax_rate =
                            IF set.default_tax_rate = None
                              THEN old.default_tax_rate
                            ELSE set.default_tax_rate[1]
    ]_vars

\* C14, its cases: a request that sets only the tax rate (to 0) succeeded on
\* a row whose company an earlier request had set, and an empty payload was
\* answered 400.
C14_Witness ==
  /\ response.status = 200
  /\ response.op = "update_settings"
  /\ response.settings =
       [full_name |-> None, company |-> None, default_tax_rate |-> Some(0)]
  /\ \E r \in users :
       /\ r.id = response.user
       /\ r.company = Some("Acme Ltd")
       /\ r.default_tax_rate = 0
       /\ r.full_name \in {"A", "B"}

C14_WitnessEmpty ==
  /\ response.status = 400
  /\ response.op = "update_settings"
  /\ \E r \in users : r.company # None

\* C15: in create_quotation, when the insert of the item rows fails after
\* the header was inserted, nothing is rolled back: the step leaves the
\* header in the store with no item row of its own, and a request whose
\* insert raised ends there with status 500; no step of a later request of
\* the server removes the header.
C15_NoRollback ==
  [][/\ \A p \in SeqProcs :
          (/\ requests[p].op = "create_quotation"
           /\ requests[p].pc = "insert_items"
           /\ faults' = faults + 1)
            => /\ quotations' = quotations
               /\ \E q \in quotations' : q.id = requests[p].quotation_id
               /\ ItemsOf(quotation_items', requests[p].quotation_id) = << >>
               /\ response' # NoResponse =>
                    (response'.status = 500 /\ requests'[p] = Idle)
     /\ {q.id : q \in quotations} \subseteq {q.id : q \in quotations'}
    ]_vars

\* C15, its case: a create_quotation with two items (subtotal 150) ended
\* with 500 at its item insert; its header is stored without item rows.
C15_Witness ==
  /\ response.status = 500
  /\ response.op = "create_quotation"
  /\ \E q \in quotations :
       /\ q.subtotal = FlFromInt(150)
       /\ ItemsOf(quotation_items, q.id) = << >>

\* The rows of a table that a tenant owns, and the item rows of the
\* quotations (qs) a tenant owns.
RowsOf(table, u) == {r \in table : r.user_id = u}

TenantItems(items, qs, u) ==
  SelectSeq(items, LAMBDA r :
    \E q \in qs : q.id = r.quotation_id /\ q.user_id = u)

\* The tenants whose request takes the step: the one answered, or the one
\* whose request moves on.
StepActors ==
  {u \in Users :
     \/ response' # NoResponse /\ response'.user = u
     \/ \E p \in Procs :
          /\ requests'[p] # requests[p]
          /\ \/ requests[p] # Idle /\ requests[p].user = u
             \/ requests'[p] # Idle /\ requests'[p].user = u}

\* The table an update or delete request is about, and the row id it names.
TargetTable(op) ==
  CASE op \in {"update_customer", "delete_customer"} -> customers
    [] op \in {"update_product", "delete_product"} -> products
    [] op \in {"send_reminder", "delete_reminder"} -> reminders
    [] OTHER -> quotations

TargetId(r) == IF "target" \in DOMAIN r THEN r.target ELSE r.quotation_id

\* C16: no step of an update or delete request of one tenant changes or
\* removes a customer, product, quotation or reminder row of another tenant
\* or an item row of another tenant's quotation; a request that names a row
\* of another tenant is answered 'not found' (404) with the store unchanged
\* (when the store call does not raise); and update_quotation goes on to
\* its item delete and insert only for a quotation the caller owns.
C16_WriteIsolation ==
  [][/\ \A b \in Users \ StepActors :
          /\ RowsOf(customers', b) = RowsOf(customers, b)
          /\ RowsOf(products', b) = RowsOf(products, b)
          /\ RowsOf(quotations', b) = RowsOf(quotations, b)
          /\ RowsOf(reminders', b) = RowsOf(reminders, b)
          /\ TenantItems(quotation_items', quotations, b) =
               TenantItems(quotation_items, quotations, b)
     /\ (/\ response' # NoResponse
         /\ response'.op \in {"update_customer", "delete_customer",
                              "update_product", "delete_product",
                              "update_quotation", "delete_quotation",
                              "update_payment_status", "send_reminder",
                              "delete_reminder"}
         /\ "target" \in DOMAIN response' \/ "quotation_id" \in DOMAIN response'
         /\ \E r \in TargetTable(response'.op) :
              r.id = TargetId(response') /\ r.user_id # response'.user)
          => /\ store' = store
             /\ faults' = faults => response'.status = 404
     /\ \A p \in Procs :
          (requests[p] = Idle /\ requests'[p] # Idle)
            => \E q \in quotations :
                 /\ q.id = requests'[p].quotation_id
                 /\ q.user_id = requests'[p].user
    ]_vars

\* C16, its case: tenant u1, after changing a row of its own, asked to
\* delete quotation 2 of tenant u2 and was answered 404; the quotation and
\* its item row are in the store.
C16_Witness ==
  /\ response.status = 404
  /\ response.op = "delete_quotation"
  /\ response.user = "u1"
  /\ response.target = 2
  /\ \E q \in quotations : q.id = 2 /\ q.user_id = "u2"
  /\ ItemsOf(quotation_items, 2) = ItemRows(2, StoredBodies[2].items)
  /\ ChangedRows > 0

\* C17: under any interleaving of register requests, the users table never
\* holds two rows with the same email.
C17_UniqueEmails ==
  \A r1, r2 \in users : r1.email = r2.email => r1 = r2

\* C18: every step of an update_quotation request leaves quotation_number,
\* status, payment_status, payment_date, payment_amount, payment_notes and
\* user_id of every quotation as they were and adds or removes no
\* quotation; and status is 'pending' for every quotation in every
\* reachable state.
C18_UpdateFrameStatusPending ==
  /\ \A q \in quotations : q.status = "pending"
  /\ [][/\ \A q \in quotations' : q.status = "pending"
        /\ (\E p \in SeqProcs :
              \/ requests[p].op = "update_quotation"
              \/ requests'[p].op = "update_quotation"
              \/ response' # NoResponse /\ response'.op = "update_quotation")
             => /\ {q.id : q \in quotations'} = {q.id : q \in quotations}
                /\ Cardinality(quotations') = Cardinality(quotations)
                /\ \A q \in quotations : \E n \in quotations' :
                     /\ n.id = q.id
                     /\ n.quotation_number = q.quotation_number
                     /\ n.status = q.status
                     /\ n.payment_status = q.payment_status
                     /\ n.payment_date = q.payment_date
                     /\ n.payment_amount = q.payment_amount
                     /\ n.payment_notes = q.payment_notes
                     /\ n.user_id = q.user_id
       ]_vars

\* C18, its case: an update_quotation has replaced the amounts of a
\* quotation on which a payment had been recorded; the payment fields and
\* the status are as they were.
C18_Witness ==
  /\ response.status = 200
  /\ response.op = "update_quotation"
  /\ response.quotation.payment_status = "paid"
  /\ response.quotation.payment_amount = Some(FlFromInt(100))
  /\ response.quotation.payment_notes = Some("havale")
  /\ response.quotation.status = "pending"
  /\ response.quotation.discount_amount = FlFromInt(0)
  /\ response.quotation.subtotal = FlFromInt(150)
  /\ response.quotation \in quotations

=============================================================================
